---- MODULE Spec2Model ----
(***************************************************************************)
(* wrap_num: the bounded unsigned integer WrapNum<T> of src/lib.rs and of  *)
(* src/wrap_num.rs, modelled at T = u8 with right operands of type U = u16 *)
(* (a wider unsigned type, so that the NumCast of a right operand can      *)
(* fail).  A WrapNum is the record [value, wrap] of its two fields.        *)
(* Right operands are unsigned integers or WrapNums; signed and floating   *)
(* operands, which wrap_num.rs also accepts (U: ToPrimitive), are left out.*)
(*                                                                         *)
(* Integer overflow on a primitive `+`, `*` or `-` is not the same in every*)
(* build: with overflow checks (the dev and test profiles) it panics,      *)
(* without them (the release profile) it wraps at the storage width.  The  *)
(* variable overflow_checks is the build's choice, fixed in Init.          *)
(***************************************************************************)
EXTENDS Integers, Sequences, FiniteSets, TLC

VARIABLES
    variant,          \* "lib": src/lib.rs is the WrapNum in use; "wrap_num": src/wrap_num.rs
    overflow_checks,  \* the build profile's overflow checks
    x,                \* the left operand / receiver
    y,                \* a second WrapNum, used as right operand
    xlive,            \* x has been constructed
    ylive,            \* y has been constructed
    panicked,         \* an operation panicked: the program has ended
    last,             \* the last call: its name, form, operands and, for ==, its result
    steps,            \* arithmetic operations done so far
    total,            \* history: value + r1 + ... + rk in unbounded arithmetic while only
                      \* bare additions were applied to x since new(); -1 otherwise
    born,             \* history: the wrap x was constructed with
    laws              \* the run that evaluates both sides of the algebraic laws: its
                      \* position, operator, third operand z and the results so far

vars == <<variant, overflow_checks, x, y, xlive, ylive, panicked, last, steps, total, born,
          laws>>

-----------------------------------------------------------------------------
(* Bounds of the model *)

\* Storage width of T in bits (u8).
Bits == 8
\* Arithmetic operations per run.
MaxOps == 2

T_MOD == 2 ^ Bits
T_MAX == T_MOD - 1

\* Values and bounds handed to WrapNum::new.
NewValues == {0, 3, 4, 6, T_MAX - 56}
NewWraps == {0, 6, T_MAX - 55}
\* Bare right operands (U = u16): the last one does not fit T.
BareOperands == {0, 2, 6, 7, T_MAX, T_MOD + 44}

-----------------------------------------------------------------------------
(* Values *)

WN(v, w) == [value |-> v, wrap |-> w]

\* The outcome of a call: a panic, or the WrapNum it returns / leaves in self.
Panic == [panic |-> TRUE, value |-> 0, wrap |-> 0]
Ok(v, w) == [panic |-> FALSE, value |-> v, wrap |-> w]

\* A primitive's result: a panic or a number.
PPanic == [panic |-> TRUE, v |-> 0]
PVal(n) == [panic |-> FALSE, v |-> n]

\* Option<T>
None == [some |-> FALSE, v |-> 0]
Some(n) == [some |-> TRUE, v |-> n]

\* A right operand: a bare number (kind "num") or a WrapNum (kind "wrapnum").
Bare(n) == [kind |-> "num", value |-> n, wrap |-> 0]
Wrapped(w) == [kind |-> "wrapnum", value |-> w.value, wrap |-> w.wrap]
NoOperand == [kind |-> "none", value |-> 0, wrap |-> 0]

-----------------------------------------------------------------------------
(* Primitive arithmetic of T (core::ops on an unsigned integer of Bits bits) *)

\* T::add: `+`, panics on overflow with overflow checks, wraps without.
prim_add(a, b) ==
    IF a + b > T_MAX
    THEN IF overflow_checks THEN PPanic ELSE PVal((a + b) % T_MOD)
    ELSE PVal(a + b)

\* T::mul: `*`.
prim_mul(a, b) ==
    IF a * b > T_MAX
    THEN IF overflow_checks THEN PPanic ELSE PVal((a * b) % T_MOD)
    ELSE PVal(a * b)

\* T::sub: `-`.
prim_sub(a, b) ==
    IF a < b
    THEN IF overflow_checks THEN PPanic ELSE PVal((a - b + T_MOD) % T_MOD)
    ELSE PVal(a - b)

\* T::rem: `%`, panics on a zero divisor in every build.
prim_rem(a, b) == IF b = 0 THEN PPanic ELSE PVal(a % b)

wrapping_add(a, b) == (a + b) % T_MOD

wrapping_mul(a, b) == (a * b) % T_MOD

\* NumCast::from(n) for T: Some(n) when n fits T.
NumCast_from(n) == IF n >= 0 /\ n <= T_MAX THEN Some(n) ELSE None

-----------------------------------------------------------------------------
(* src/lib.rs *)

\* WrapNum::new
lib_new(value, wrap) == IF value < wrap THEN Ok(value, wrap) ELSE Panic

\* (self.value).$trait_fn(..): T's add or mul, as impl_ops! is instantiated.
trait_fn(f, a, b) == IF f = "add" THEN prim_add(a, b) ELSE prim_mul(a, b)

\* impl $trait_name<U> for WrapNum<T>: self op rhs, rhs a bare number.
lib_op(f, self, rhs) ==
    LET c == NumCast_from(rhs) IN
    IF ~c.some THEN Panic
    ELSE LET s == trait_fn(f, self.value, c.v) IN
         IF s.panic THEN Panic
         ELSE LET result == prim_rem(s.v, self.wrap) IN
              IF result.panic THEN Panic ELSE Ok(result.v, self.wrap)

\* lib_op_wrapnum taking the right operand's wrap for the result.
lib_op_wrapnum_rhs_wrap(f, self, rhs) ==
    LET c == NumCast_from(rhs.value) IN
    IF ~c.some THEN Panic
    ELSE LET s == trait_fn(f, self.value, c.v) IN
         IF s.panic THEN Panic
         ELSE LET result == prim_rem(s.v, rhs.wrap) IN
              IF result.panic THEN Panic ELSE Ok(result.v, rhs.wrap)

\* impl $trait_name<WrapNum<U>> for WrapNum<T>: self op rhs, rhs a WrapNum.
lib_op_wrapnum(f, self, rhs) ==
    LET c == NumCast_from(rhs.value) IN
    IF ~c.some THEN Panic
    ELSE LET s == trait_fn(f, self.value, c.v) IN
         IF s.panic THEN Panic
         ELSE LET result == prim_rem(s.v, self.wrap) IN
              IF result.panic THEN Panic ELSE Ok(result.v, self.wrap)

\* impl $as_trait_name<U> for WrapNum<T>: self op= rhs, rhs a bare number.
\* Only self.value is assigned.
lib_op_assign(f, self, rhs) ==
    LET c == NumCast_from(rhs) IN
    IF ~c.some THEN Panic
    ELSE LET s == trait_fn(f, self.value, c.v) IN
         IF s.panic THEN Panic
         ELSE LET v == prim_rem(s.v, self.wrap) IN
              IF v.panic THEN Panic ELSE [Ok(self.value, self.wrap) EXCEPT !.value = v.v]

\* impl $as_trait_name<WrapNum<U>> for WrapNum<T>: self op= rhs, rhs a WrapNum.
lib_op_assign_wrapnum(f, self, rhs) ==
    LET c == NumCast_from(rhs.value) IN
    IF ~c.some THEN Panic
    ELSE LET s == trait_fn(f, self.value, c.v) IN
         IF s.panic THEN Panic
         ELSE LET v == prim_rem(s.v, self.wrap) IN
              IF v.panic THEN Panic ELSE [Ok(self.value, self.wrap) EXCEPT !.value = v.v]

-----------------------------------------------------------------------------
(* src/wrap_num.rs *)

\* new asserting value <= wrap.
new_le(value, wrap) == IF value <= wrap THEN Ok(value, wrap) ELSE Panic

\* WrapNum::new
new(value, wrap) == IF value < wrap THEN Ok(value, wrap) ELSE Panic

\* get_value returning the stored value as it is.
get_value_raw(self) == PVal(self.value)

\* WrapNum::get_value: self.value % self.wrap
get_value(self) == prim_rem(self.value, self.wrap)

\* ToPrimitive::to_u64 for WrapNum: the stored value, not get_value().
to_u64(self) == self.value

\* NumCast::from(rhs) for a right operand U: ToPrimitive: a bare number converts
\* as itself, a WrapNum through its to_u64.
cast_operand(rhs) ==
    IF rhs.kind = "wrapnum" THEN NumCast_from(to_u64(rhs)) ELSE NumCast_from(rhs.value)

\* Add::add
add(self, rhs) ==
    LET c == cast_operand(rhs) IN
    IF ~c.some THEN Panic ELSE Ok(wrapping_add(self.value, c.v), self.wrap)

\* add_assign reducing by the bound, which add does not.
add_assign_mod(self, rhs) ==
    LET c == cast_operand(rhs) IN
    IF ~c.some THEN Panic
    ELSE [Ok(self.value, self.wrap) EXCEPT
            !.value = wrapping_add(self.value, c.v) % self.wrap]

\* AddAssign::add_assign
add_assign(self, rhs) ==
    LET c == cast_operand(rhs) IN
    IF ~c.some THEN Panic
    ELSE [Ok(self.value, self.wrap) EXCEPT !.value = wrapping_add(self.value, c.v)]

\* Sub::sub
sub(self, rhs) ==
    LET c == cast_operand(rhs) IN
    IF ~c.some THEN Panic
    ELSE LET d == prim_sub(self.value, c.v) IN
         IF d.panic THEN Panic ELSE Ok(d.v, self.wrap)

\* SubAssign::sub_assign
sub_assign(self, rhs) ==
    LET c == cast_operand(rhs) IN
    IF ~c.some THEN Panic
    ELSE LET d == prim_sub(self.value, c.v) IN
         IF d.panic THEN Panic ELSE [Ok(self.value, self.wrap) EXCEPT !.value = d.v]

\* Mul::mul
mul(self, rhs) ==
    LET c == cast_operand(rhs) IN
    IF ~c.some THEN Panic ELSE Ok(wrapping_mul(self.value, c.v), self.wrap)

\* MulAssign::mul_assign
mul_assign(self, rhs) ==
    LET c == cast_operand(rhs) IN
    IF ~c.some THEN Panic
    ELSE [Ok(self.value, self.wrap) EXCEPT !.value = wrapping_mul(self.value, c.v)]

\* rem reducing by the left operand's bound instead of the right operand.
rem_by_wrap(self, rhs) ==
    LET c == cast_operand(rhs) IN
    IF ~c.some THEN Panic
    ELSE LET d == prim_rem(self.value, self.wrap) IN
         IF d.panic THEN Panic ELSE Ok(d.v, self.wrap)

\* Rem::rem
rem(self, rhs) ==
    LET c == cast_operand(rhs) IN
    IF ~c.some THEN Panic
    ELSE LET d == prim_rem(self.value, c.v) IN
         IF d.panic THEN Panic ELSE Ok(d.v, self.wrap)

\* RemAssign::rem_assign
rem_assign(self, rhs) ==
    LET c == cast_operand(rhs) IN
    IF ~c.some THEN Panic
    ELSE LET d == prim_rem(self.value, c.v) IN
         IF d.panic THEN Panic ELSE [Ok(self.value, self.wrap) EXCEPT !.value = d.v]

\* #[derive(PartialEq)]: field by field.
eq(self, other) == self.value = other.value /\ self.wrap = other.wrap

-----------------------------------------------------------------------------
(* The program: a caller that constructs x and y and applies operators to x *)

\* A call record: dst is the variable a constructor binds.
Call(op, form, lhs, rhs) ==
    [op |-> op, form |-> form, lhs |-> lhs, rhs |-> rhs, eq |-> FALSE, dst |-> "x"]

LawsIdle ==
    [pc |-> -1, f |-> "none", z |-> WN(0, 0), xy |-> WN(0, 0), yx |-> WN(0, 0),
     xy_z |-> WN(0, 0), yz |-> WN(0, 0), x_yz |-> WN(0, 0)]

Init ==
    /\ variant \in {"lib", "wrap_num"}
    /\ overflow_checks \in BOOLEAN
    /\ x = WN(0, 0)
    /\ y = WN(0, 0)
    /\ xlive = FALSE
    /\ ylive = FALSE
    /\ panicked = FALSE
    /\ last = Call("none", "none", WN(0, 0), NoOperand)
    /\ steps = 0
    /\ total = -1
    /\ born = 0
    /\ laws = LawsIdle

\* The dev / test profile: overflow checks on.
InitDebug == Init /\ overflow_checks = TRUE

\* let x = WrapNum::new(v, w): `out` is the constructor's outcome.
ConstructX(out, v, w) ==
    /\ ~xlive /\ ~panicked
    /\ last' = Call("new", "value", WN(v, w), NoOperand)
    /\ panicked' = out.panic
    /\ xlive' = ~out.panic
    /\ x' = IF out.panic THEN x ELSE WN(out.value, out.wrap)
    /\ total' = IF out.panic THEN -1 ELSE out.value
    /\ born' = IF out.panic THEN born ELSE w
    /\ UNCHANGED <<variant, overflow_checks, y, ylive, steps, laws>>

\* let y = WrapNum::new(v, w)
ConstructY(out, v, w) ==
    /\ ~ylive /\ ~panicked
    /\ last' = [Call("new", "value", WN(v, w), NoOperand) EXCEPT !.dst = "y"]
    /\ panicked' = out.panic
    /\ ylive' = ~out.panic
    /\ y' = IF out.panic THEN y ELSE WN(out.value, out.wrap)
    /\ UNCHANGED <<variant, overflow_checks, x, xlive, steps, total, born, laws>>

\* x = x op rhs (form "value") or x op= rhs (form "assign"): `out` is the outcome.
Apply(out, op, form, rhs) ==
    /\ last' = Call(op, form, x, rhs)
    /\ panicked' = out.panic
    /\ x' = IF out.panic THEN x ELSE WN(out.value, out.wrap)
    /\ steps' = steps + 1
    /\ total' = IF op = "add" /\ rhs.kind = "num" /\ total >= 0 /\ ~out.panic
                THEN total + rhs.value
                ELSE -1
    /\ UNCHANGED <<variant, overflow_checks, y, xlive, ylive, born, laws>>

CanApply == xlive /\ ~panicked /\ steps < MaxOps

\* The WrapNums at hand as right operands: y, or a copy of x (WrapNum is Copy).
WrapNumOperands == {Wrapped(x)} \cup (IF ylive THEN {Wrapped(y)} ELSE {})

Operands == {Bare(n) : n \in BareOperands} \cup WrapNumOperands

(* src/lib.rs *)

LibNewX ==
    \E v \in NewValues, w \in NewWraps :
        variant = "lib" /\ ConstructX(lib_new(v, w), v, w)

LibNewY ==
    \E v \in NewValues, w \in NewWraps :
        variant = "lib" /\ ConstructY(lib_new(v, w), v, w)

LibOp ==
    \E f \in {"add", "mul"}, n \in BareOperands :
        variant = "lib" /\ CanApply /\ Apply(lib_op(f, x, n), f, "value", Bare(n))

LibOpWrapNum ==
    \E f \in {"add", "mul"}, r \in WrapNumOperands :
        variant = "lib" /\ CanApply /\ Apply(lib_op_wrapnum(f, x, r), f, "value", r)

LibOpAssign ==
    \E f \in {"add", "mul"}, n \in BareOperands :
        variant = "lib" /\ CanApply /\ Apply(lib_op_assign(f, x, n), f, "assign", Bare(n))

LibOpAssignWrapNum ==
    \E f \in {"add", "mul"}, r \in WrapNumOperands :
        variant = "lib" /\ CanApply
        /\ Apply(lib_op_assign_wrapnum(f, x, r), f, "assign", r)

(* src/wrap_num.rs *)

NewX ==
    \E v \in NewValues, w \in NewWraps :
        variant = "wrap_num" /\ ConstructX(new(v, w), v, w)

NewY ==
    \E v \in NewValues, w \in NewWraps :
        variant = "wrap_num" /\ ConstructY(new(v, w), v, w)

Add ==
    \E r \in Operands :
        variant = "wrap_num" /\ CanApply /\ Apply(add(x, r), "add", "value", r)

AddAssign ==
    \E r \in Operands :
        variant = "wrap_num" /\ CanApply /\ Apply(add_assign(x, r), "add", "assign", r)

Sub ==
    \E r \in Operands :
        variant = "wrap_num" /\ CanApply /\ Apply(sub(x, r), "sub", "value", r)

SubAssign ==
    \E r \in Operands :
        variant = "wrap_num" /\ CanApply /\ Apply(sub_assign(x, r), "sub", "assign", r)

Mul ==
    \E r \in Operands :
        variant = "wrap_num" /\ CanApply /\ Apply(mul(x, r), "mul", "value", r)

MulAssign ==
    \E r \in Operands :
        variant = "wrap_num" /\ CanApply /\ Apply(mul_assign(x, r), "mul", "assign", r)

Rem ==
    \E r \in Operands :
        variant = "wrap_num" /\ CanApply /\ Apply(rem(x, r), "rem", "value", r)

RemAssign ==
    \E r \in Operands :
        variant = "wrap_num" /\ CanApply /\ Apply(rem_assign(x, r), "rem", "assign", r)

\* x == y
Eq ==
    /\ variant = "wrap_num" /\ xlive /\ ylive /\ ~panicked
    /\ last.op # "eq"
    /\ last' = [Call("eq", "value", x, Wrapped(y)) EXCEPT !.eq = eq(x, y)]
    /\ UNCHANGED <<variant, overflow_checks, x, y, xlive, ylive, panicked, steps,
                   total, born, laws>>

Next ==
    \/ LibNewX
    \/ LibNewY
    \/ LibOp
    \/ LibOpWrapNum
    \/ LibOpAssign
    \/ LibOpAssignWrapNum
    \/ NewX
    \/ NewY
    \/ Add
    \/ AddAssign
    \/ Sub
    \/ SubAssign
    \/ Mul
    \/ MulAssign
    \/ Rem
    \/ RemAssign
    \/ Eq

Spec == Init /\ [][Next]_vars

SpecDebug == InitDebug /\ [][Next]_vars

-----------------------------------------------------------------------------
(* A second caller: x = new(a, m), y = new(b, m), z = new(c, m) share one bound;
   it evaluates x op y, y op x, (x op y) op z, y op z and x op (y op z). *)

LawsInit ==
    /\ variant \in {"lib", "wrap_num"}
    /\ overflow_checks \in BOOLEAN
    /\ \E m \in NewWraps, a \in NewValues, b \in NewValues, c \in NewValues,
          f \in {"add", "mul"} :
        LET nx == IF variant = "lib" THEN lib_new(a, m) ELSE new(a, m)
            ny == IF variant = "lib" THEN lib_new(b, m) ELSE new(b, m)
            nz == IF variant = "lib" THEN lib_new(c, m) ELSE new(c, m)
        IN  /\ ~nx.panic /\ ~ny.panic /\ ~nz.panic
            /\ x = WN(nx.value, nx.wrap)
            /\ y = WN(ny.value, ny.wrap)
            /\ laws = [LawsIdle EXCEPT !.pc = 0, !.f = f, !.z = WN(nz.value, nz.wrap)]
            /\ born = m
    /\ xlive = TRUE
    /\ ylive = TRUE
    /\ panicked = FALSE
    /\ last = Call("none", "none", WN(0, 0), NoOperand)
    /\ steps = 0
    /\ total = -1

LawsInitDebug == LawsInit /\ overflow_checks = TRUE

\* a op b with a WrapNum right operand, value-returning form.
binop(f, a, b) ==
    IF variant = "lib" THEN lib_op_wrapnum(f, a, Wrapped(b))
    ELSE IF f = "add" THEN add(a, Wrapped(b)) ELSE mul(a, Wrapped(b))

\* One evaluation: its outcome goes to the named result; a panic ends the run.
LawStep(k, field, out) ==
    /\ laws.pc = k /\ ~panicked
    /\ panicked' = out.panic
    /\ laws' = [laws EXCEPT !.pc = k + 1, ![field] = WN(out.value, out.wrap)]
    /\ UNCHANGED <<variant, overflow_checks, x, y, xlive, ylive, last, steps, total, born>>

LawXY == LawStep(0, "xy", binop(laws.f, x, y))

LawYX == LawStep(1, "yx", binop(laws.f, y, x))

LawXY_Z == LawStep(2, "xy_z", binop(laws.f, laws.xy, laws.z))

LawYZ == LawStep(3, "yz", binop(laws.f, y, laws.z))

LawX_YZ == LawStep(4, "x_yz", binop(laws.f, x, laws.yz))

LawsNext ==
    \/ LawXY
    \/ LawYX
    \/ LawXY_Z
    \/ LawYZ
    \/ LawX_YZ

SpecLaws == LawsInit /\ [][LawsNext]_vars

SpecLawsDebug == LawsInitDebug /\ [][LawsNext]_vars

-----------------------------------------------------------------------------
(* Claims *)

\* The value a caller observes: the stored value in lib.rs, get_value() in wrap_num.rs.
Observed(w) == IF variant = "lib" THEN PVal(w.value) ELSE get_value(w)

\* The last call was an arithmetic operator applied to x.
IsOp == last.op \in {"add", "sub", "mul", "rem"}

\* The outcome of the last arithmetic call.
Outcome == IF panicked THEN Panic ELSE Ok(x.value, x.wrap)

\* a op b in unbounded integer arithmetic.
Exact(op, a, b) == IF op = "add" THEN a + b ELSE a * b

\* C1: new(a, m) op new(b, m), op addition or multiplication, does not fail and
\* yields bound m and the value (a op b) mod m of unbounded arithmetic.
C1_BoundModulus ==
    (/\ last.op \in {"add", "mul"}
     /\ last.form = "value"
     /\ steps = 1
     /\ last.rhs.kind = "wrapnum"
     /\ last.rhs.wrap = last.lhs.wrap)
    => /\ ~panicked
       /\ x.wrap = last.lhs.wrap
       /\ Observed(x) = PVal(Exact(last.op, last.lhs.value, last.rhs.value) % last.lhs.wrap)

\* C2: after new and any non-failing operations the observable value of x is
\* obtained without failure and is strictly below the bound.
C2_ObservedBelowWrap ==
    (xlive /\ ~panicked) => (~Observed(x).panic /\ Observed(x).v < x.wrap)

\* C2 witness: wrap_num.rs after an operator that left the stored value at or above
\* the bound.
C2_Witness ==
    /\ variant = "wrap_num" /\ IsOp /\ ~panicked
    /\ x.value >= x.wrap

\* C3: new(value, wrap) panics exactly when value >= wrap (wrap = 0 included);
\* otherwise the new WrapNum holds that value and that wrap, value below bound.
C3_NewValidates ==
    last.op = "new" =>
        /\ panicked <=> (last.lhs.value >= last.lhs.wrap)
        /\ ~panicked =>
            LET made == IF last.dst = "x" THEN x ELSE y IN
            /\ made = last.lhs
            /\ Observed(made) = PVal(last.lhs.value)
            /\ Observed(made).v < made.wrap

\* C3 witness: a successful construction of a non-zero value.
C3_Witness ==
    /\ last.op = "new" /\ ~panicked
    /\ last.lhs.value > 0

\* C4: every arithmetic operation yields the left operand's wrap, whatever the
\* right operand's wrap, so x keeps the wrap it was constructed with.
C4_WrapKept ==
    /\ (IsOp /\ ~panicked) => x.wrap = last.lhs.wrap
    /\ xlive => x.wrap = born

\* C4 witness: a second operation whose right operand is a WrapNum of another wrap.
C4_Witness ==
    /\ IsOp /\ ~panicked /\ steps >= 2
    /\ last.rhs.kind = "wrapnum"
    /\ last.rhs.wrap # last.lhs.wrap

\* The magnitude of a right operand: the bare number, or a WrapNum's get_value().
Magnitude(rhs) == IF rhs.kind = "wrapnum" THEN get_value(rhs).v ELSE rhs.value

\* C5: x - r (x -= r) fails whenever r exceeds x.get_value(); otherwise it succeeds
\* and the result's get_value() is x.get_value() - r.
C5_SubChecked ==
    last.op = "sub" =>
        LET g == get_value(last.lhs).v
            r == Magnitude(last.rhs)
        IN  /\ r > g => panicked
            /\ r <= g => (~panicked /\ get_value(x) = PVal(g - r))

\* C6: x == y exactly when their get_value() are equal and their wraps are equal.
C6_EqObserved ==
    last.op = "eq" =>
        (last.eq <=> (get_value(x) = get_value(y) /\ x.wrap = y.wrap))

\* C8: for x, y, z of one bound and op addition or multiplication, x op y and
\* y op x yield the same value, (x op y) op z and x op (y op z) yield the same
\* value, and no side fails.
C8_CommutesAssociates ==
    /\ laws.pc >= 1 => ~panicked
    /\ laws.pc >= 2 => Observed(laws.xy) = Observed(laws.yx)
    /\ laws.pc >= 5 => Observed(laws.xy_z) = Observed(laws.x_yz)

\* The form of the last call's operator other than the one that ran, applied to
\* the same operands.
OtherForm ==
    LET s == last.lhs
        r == last.rhs
    IN  IF variant = "lib"
        THEN IF last.form = "value"
             THEN IF r.kind = "num" THEN lib_op_assign(last.op, s, r.value)
                                    ELSE lib_op_assign_wrapnum(last.op, s, r)
             ELSE IF r.kind = "num" THEN lib_op(last.op, s, r.value)
                                    ELSE lib_op_wrapnum(last.op, s, r)
        ELSE IF last.form = "value"
             THEN CASE last.op = "add" -> add_assign(s, r)
                    [] last.op = "sub" -> sub_assign(s, r)
                    [] last.op = "mul" -> mul_assign(s, r)
                    [] OTHER -> rem_assign(s, r)
             ELSE CASE last.op = "add" -> add(s, r)
                    [] last.op = "sub" -> sub(s, r)
                    [] last.op = "mul" -> mul(s, r)
                    [] OTHER -> rem(s, r)

\* C7: the in-place form leaves x with exactly the value and wrap the
\* value-returning form returns, and the two fail in exactly the same cases.
C7_AssignSameAsValue == IsOp => Outcome = OtherForm

\* C7 witness: an in-place operator that changed x.
C7_Witness ==
    /\ IsOp /\ last.form = "assign" /\ ~panicked
    /\ x # last.lhs

\* The number a right operand brings to the operator: the bare number, or a
\* WrapNum's stored value.
Number(rhs) == rhs.value

\* C9 as stated: x % r (x %= r) fails when r is zero; for every non-zero r it
\* succeeds and the result's get_value() lies in [0, r).
C9_RemAnyOperand ==
    last.op = "rem" =>
        LET r == Number(last.rhs) IN
        /\ r = 0 => panicked
        /\ r # 0 => (~panicked /\ ~get_value(x).panic /\ get_value(x).v < r)

\* C9 amended: for a right operand r representable at x's storage width, x % r
\* (x %= r) fails when r is zero and otherwise succeeds with get_value() in [0, r).
C9_RemRepresentable ==
    (last.op = "rem" /\ Number(last.rhs) <= T_MAX) =>
        LET r == Number(last.rhs) IN
        /\ r = 0 => panicked
        /\ r # 0 => (~panicked /\ ~get_value(x).panic /\ get_value(x).v < r)

\* C9 witness: a remainder, by a non-zero divisor, of a stored value at or above
\* the bound.
C9_Witness ==
    /\ last.op = "rem" /\ ~panicked
    /\ last.lhs.value >= last.lhs.wrap
    /\ last.rhs.value # 0
    /\ last.rhs.value < last.lhs.value

\* C10: in wrap_num.rs, after new(v, m) and bare additions r1..rk, get_value() is
\* (v + r1 + ... + rk) mod m of unbounded arithmetic.
C10_CyclicCounter ==
    (variant = "wrap_num" /\ xlive /\ ~panicked /\ total >= 0)
        => get_value(x) = PVal(total % x.wrap)

====
